---- MODULE Spec2Model ----
(***************************************************************************)
(* Model of the weather station's acquisition-and-publish cycle            *)
(* (meetstation.py): run() and the functions it calls, one action per      *)
(* statement group, with the debug pin, the WiFi link, the I2C bus, the    *)
(* HTTP endpoint and the MQTT broker as a nondeterministic environment.    *)
(*                                                                         *)
(* Numbers with a fraction are carried as integers: temperatures in        *)
(* hundredths of a degree, the battery voltage in millivolts.              *)
(***************************************************************************)
EXTENDS Integers, Sequences, FiniteSets, TLC

(***************************************************************************)
(* config.py                                                               *)
(***************************************************************************)
LED_ON == 0
LED_OFF == 1
FAHRENHEIT == FALSE
INTERVAL == 900
MAX_TRIES == 20
STATION_ID == "<Your Station ID>"
OPENWEATHERMAP_CITY == "<Your OpenWeather City>"
MQTT_TOPIC == "weatherdata"

(***************************************************************************)
(* What the environment can answer                                         *)
(***************************************************************************)
\* levels of the debug pin (pull-up input: 0 = held low = debugging)
PinLevels == {0, 1}
\* values sta_if.status('rssi') can report
RssiVals == {-70, -40}
\* I2C addresses of the AM2320, BMP180 and BH1750
AM2320_ADDR == 92
BMP180_ADDR == 119
BH1750_ADDR == 35
Addrs == {AM2320_ADDR, BMP180_ADDR, BH1750_ADDR}
\* HTTP status codes of the OpenWeather answer
StatusCodes == {200, 399, 400, 404}
\* keys of today['main'] the program reads
MainKeys == {"temp", "humidity", "pressure"}
\* an OpenWeather answer: status, whether the body is JSON, which keys of
\* 'main' it has, and their values (temp in hundredths of a Kelvin)
Responses ==
    [status : StatusCodes, json : BOOLEAN, keys : SUBSET MainKeys,
     temp : {28315}, humidity : {60}, pressure : {1013}]
\* raw sensor values: AM2320 (hundredths of a degree C, %), BMP180
\* (hundredths of a degree C, Pa, m), BH1750 (lux), ADC (16 bit)
AmTemps == {1000}
AmHums == {55}
BmpTemps == {1050}
BmpPress == {101300}
BmpAlts == {12}
BhLums == {300}
AdcVals == {52000}

VARIABLES
    pc,          \* position of the program
    ret,         \* where show_error() returns to
    i,           \* loop index of show_error()
    led,         \* level of the LED pin
    pin,         \* level of the debug pin (environment)
    link,        \* the station is connected to the access point (environment)
    rssi,        \* the radio's current signal strength (environment)
    ap_active,   \* the access-point interface is active
    sta_active,  \* the station interface is active
    tries,       \* connect_wifi's counter
    wifi_rssi,   \* run()'s wifi_rssi: <<>> or <<value>>
    response,    \* get_weather_data's response: <<>> or <<record>>
    ow_data,     \* run()'s ow_data: <<>> or <<record>>
    scan1,       \* result of the first i2c.scan() (line 217): <<>> or <<set>>
    scan,        \* result of the latest i2c.scan(): <<>> or <<set>>
    raw,         \* values read from the sensors so far
    sensor_data, \* run()'s sensor_data: <<>> or <<record>>
    payload,     \* log_readings' payload: sequence of records
    sock,        \* the MQTT client's broker connection: "none", "open", "closed"
    delivered,   \* messages the broker received in this cycle
    exc,         \* the exception raised in this cycle ("" if none)
    sleep_ms,    \* argument of deepsleep() (0 while not called)
    \* history of the current cycle, cleared when run() starts
    trace,       \* calls, returns and outputs in order
    failed,      \* stage whose exception was raised: "none", "connect", ...
    checks,      \* results of the isconnected() calls of connect_wifi
    requests,    \* number of sta_if.connect() calls
    waits,       \* utime.sleep(1) calls of the running or failed connect_wifi
    debug_seen,  \* levels debug_on() has sampled
    n_debug,     \* number of debug_on() calls
    last_exit,   \* at "idle": how the board got there: "boot", "reset", "wake"
    \* a call of temperature_2_unit() on its own
    conv_f,      \* the unit preference of the call (config.FAHRENHEIT)
    conv_in,     \* its argument, in hundredths of a degree Celsius
    conv_out     \* its result: <<>> before the call, <<value>> after

prog == <<pc, ret, i, led, ap_active, sta_active, tries, wifi_rssi, response,
          ow_data, scan1, scan, raw, sensor_data, payload, sock, delivered,
          exc, sleep_ms>>
hist == <<trace, failed, checks, requests, waits, debug_seen, n_debug,
          last_exit>>
env == <<pin, link, rssi>>
conv == <<conv_f, conv_in, conv_out>>
vars == <<prog, hist, env, conv>>

\* groups of variables an action leaves alone together
ledv == <<ret, i, led>>
wifiv == <<ap_active, sta_active, tries, wifi_rssi>>
fetchv == <<response, ow_data>>
sensev == <<scan1, scan, raw, sensor_data>>
mqttv == <<payload, sock, delivered>>
connh == <<checks, requests, waits>>
dbgh == <<debug_seen, n_debug>>

NoChecks == [entry |-> "none", loop |-> "none", final |-> "none"]
NoRaw == [am_temp |-> 0, am_hum |-> 0, bmp_temp |-> 0, bmp_pres |-> 0,
          bmp_alt |-> 0, bh_lum |-> 0]

Log(e) == trace' = Append(trace, e)
Seen(b) == IF b THEN "up" ELSE "down"

RECURSIVE Count(_, _)
Count(e, s) == IF s = <<>> THEN 0
               ELSE (IF Head(s) = e THEN 1 ELSE 0) + Count(e, Tail(s))

\* position of the first e in s (0 if absent)
RECURSIVE IndexFrom(_, _, _)
IndexFrom(e, s, k) == IF k > Len(s) THEN 0
                      ELSE IF s[k] = e THEN k ELSE IndexFrom(e, s, k + 1)
Index(e, s) == IndexFrom(e, s, 1)
In(e, s) == Index(e, s) > 0

(***************************************************************************)
(* Start of a cycle: the interpreter runs run() after power-on, reset() or *)
(* the deepsleep timer. Nothing of the previous cycle survives.            *)
(***************************************************************************)
Cleared ==
    /\ ret = "none" /\ i = 0 /\ tries = 0
    /\ wifi_rssi = <<>> /\ response = <<>> /\ ow_data = <<>>
    /\ scan1 = <<>> /\ scan = <<>> /\ raw = NoRaw /\ sensor_data = <<>>
    /\ payload = <<>> /\ sock = "none" /\ delivered = <<>>
    /\ exc = "" /\ sleep_ms = 0
    /\ trace = <<>> /\ failed = "none" /\ checks = NoChecks
    /\ requests = 0 /\ waits = 0 /\ debug_seen = {} /\ n_debug = 0

Clear ==
    /\ ret' = "none" /\ i' = 0 /\ tries' = 0
    /\ wifi_rssi' = <<>> /\ response' = <<>> /\ ow_data' = <<>>
    /\ scan1' = <<>> /\ scan' = <<>> /\ raw' = NoRaw /\ sensor_data' = <<>>
    /\ payload' = <<>> /\ sock' = "none" /\ delivered' = <<>>
    /\ exc' = "" /\ sleep_ms' = 0
    /\ trace' = <<>> /\ failed' = "none" /\ checks' = NoChecks
    /\ requests' = 0 /\ waits' = 0 /\ debug_seen' = {} /\ n_debug' = 0

Init ==
    /\ pc = "idle"
    /\ Cleared
    /\ led = LED_OFF
    /\ sta_active = FALSE
    /\ ap_active \in BOOLEAN
    /\ pin \in PinLevels
    /\ link \in BOOLEAN
    /\ rssi \in RssiVals
    /\ last_exit = "boot"
    /\ conv_f = FAHRENHEIT
    /\ conv_in = 0
    /\ conv_out = <<>>

(***************************************************************************)
(* Environment                                                             *)
(***************************************************************************)
PinChange ==
    /\ pin' \in PinLevels \ {pin}
    /\ UNCHANGED <<prog, hist, link, rssi>>
    /\ UNCHANGED conv

LinkChange ==
    /\ \/ link' = ~link /\ rssi' = rssi
       \/ link' = link /\ rssi' \in RssiVals \ {rssi}
    /\ UNCHANGED <<prog, hist, pin>>
    /\ UNCHANGED conv

(***************************************************************************)
(* Exceptions: inside log_readings' try block they reach its own handler,  *)
(* everywhere else the handler of run().                                   *)
(***************************************************************************)
Raise(stage, msg) ==
    /\ exc' = msg
    /\ failed' = stage
    /\ pc' = "run_except"

RaiseInTry(msg) ==
    /\ exc' = msg
    /\ failed' = "publish"
    /\ pc' = "lr_except"

\* debug_on(): samples the debug pin, TRUE when it is low
debug_on == pin = 0
SampleDebug(n) ==
    /\ debug_seen' = debug_seen \cup {pin}
    /\ n_debug' = n_debug + n

(***************************************************************************)
(* run(), line 346-352: entry                                              *)
(***************************************************************************)
run_start ==
    /\ pc = "idle"
    /\ pc' = "cw_ap"
    /\ Clear
    /\ last_exit' = "none"
    /\ UNCHANGED <<led, ap_active, sta_active, env>>
    /\ UNCHANGED conv

(***************************************************************************)
(* connect_wifi(), line 86-133                                             *)
(***************************************************************************)
\* variant of line 90-94 that leaves the access point as it is
connect_wifi_ap_keep ==
    /\ pc = "cw_ap"
    /\ ap_active' = ap_active
    /\ Log("connect")
    /\ pc' = "cw_check"
    /\ UNCHANGED <<ledv, sta_active, tries, wifi_rssi, fetchv, sensev, mqttv,
                   exc, sleep_ms, failed, connh, dbgh, last_exit, env>>
    /\ UNCHANGED conv

\* line 90-94
connect_wifi_ap ==
    /\ pc = "cw_ap"
    /\ ap_active' = FALSE
    /\ Log("connect")
    /\ pc' = "cw_check"
    /\ UNCHANGED <<ledv, sta_active, tries, wifi_rssi, fetchv, sensev, mqttv,
                   exc, sleep_ms, failed, connh, dbgh, last_exit, env>>
    /\ UNCHANGED conv

\* variant of line 97 without the test: the connect request is always sent
connect_wifi_check_always ==
    /\ pc = "cw_check"
    /\ checks' = [checks EXCEPT !.entry = Seen(link)]
    /\ pc' = "cw_connect"
    /\ UNCHANGED <<ledv, wifiv, fetchv, sensev, mqttv, exc, sleep_ms, trace,
                   failed, requests, waits, dbgh, last_exit, env>>
    /\ UNCHANGED conv

\* line 97
connect_wifi_check ==
    /\ pc = "cw_check"
    /\ checks' = [checks EXCEPT !.entry = Seen(link)]
    /\ pc' = IF ~link THEN "cw_connect" ELSE "cw_final"
    /\ UNCHANGED <<ledv, wifiv, fetchv, sensev, mqttv, exc, sleep_ms, trace,
                   failed, requests, waits, dbgh, last_exit, env>>
    /\ UNCHANGED conv

\* line 100-109
connect_wifi_connect ==
    /\ pc = "cw_connect"
    /\ sta_active' = TRUE
    /\ requests' = requests + 1
    /\ Log("request")
    /\ tries' = 0
    /\ pc' = "cw_loop"
    /\ UNCHANGED <<ledv, ap_active, wifi_rssi, fetchv, sensev, mqttv, exc,
                   sleep_ms, failed, checks, waits, dbgh, last_exit, env>>
    /\ UNCHANGED conv

\* variant of line 110 with tries <= config.MAX_TRIES
connect_wifi_loop_inclusive ==
    /\ pc = "cw_loop"
    /\ checks' = [checks EXCEPT !.loop = Seen(link)]
    /\ pc' = IF ~link /\ tries <= MAX_TRIES THEN "cw_wait" ELSE "cw_final"
    /\ UNCHANGED <<ledv, wifiv, fetchv, sensev, mqttv, exc, sleep_ms, trace,
                   failed, requests, waits, dbgh, last_exit, env>>
    /\ UNCHANGED conv

\* line 110: while not sta_if.isconnected() and tries < config.MAX_TRIES
connect_wifi_loop ==
    /\ pc = "cw_loop"
    /\ checks' = [checks EXCEPT !.loop = Seen(link)]
    /\ pc' = IF ~link /\ tries < MAX_TRIES THEN "cw_wait" ELSE "cw_final"
    /\ UNCHANGED <<ledv, wifiv, fetchv, sensev, mqttv, exc, sleep_ms, trace,
                   failed, requests, waits, dbgh, last_exit, env>>
    /\ UNCHANGED conv

\* line 113-119
connect_wifi_wait ==
    /\ pc = "cw_wait"
    /\ waits' = waits + 1
    /\ tries' = tries + 1
    /\ pc' = "cw_loop"
    /\ UNCHANGED <<ledv, ap_active, sta_active, wifi_rssi, fetchv, sensev,
                   mqttv, exc, sleep_ms, trace, failed, checks, requests,
                   dbgh, last_exit, env>>
    /\ UNCHANGED conv

\* variant of line 122-133 that trusts what the loop (or the entry test) saw
\* instead of asking isconnected() again
connect_wifi_final_stale ==
    /\ pc = "cw_final"
    /\ checks' = [checks EXCEPT !.final = Seen(link)]
    /\ IF checks.loop = "up" \/ checks.entry = "up"
       THEN /\ wifi_rssi' = <<rssi>>
            /\ Log("connect_ok")
            /\ pc' = "gw_get"
            /\ tries' = 0 /\ waits' = 0
            /\ UNCHANGED <<exc, failed>>
       ELSE /\ Raise("connect", "WiFi connection failed")
            /\ Log("connect_raise")
            /\ UNCHANGED <<wifi_rssi, tries, waits>>
    /\ UNCHANGED <<ledv, ap_active, sta_active, fetchv, sensev, mqttv,
                   sleep_ms, requests, dbgh, last_exit, env>>
    /\ UNCHANGED conv

\* line 122-133
connect_wifi_final ==
    /\ pc = "cw_final"
    /\ checks' = [checks EXCEPT !.final = Seen(link)]
    /\ IF link
       THEN /\ wifi_rssi' = <<rssi>>
            /\ Log("connect_ok")
            /\ pc' = "gw_get"
            /\ tries' = 0 /\ waits' = 0
            /\ UNCHANGED <<exc, failed>>
       ELSE /\ Raise("connect", "WiFi connection failed")
            /\ Log("connect_raise")
            /\ UNCHANGED <<wifi_rssi, tries, waits>>
    /\ UNCHANGED <<ledv, ap_active, sta_active, fetchv, sensev, mqttv,
                   sleep_ms, requests, dbgh, last_exit, env>>
    /\ UNCHANGED conv

connect_wifi ==
    \/ connect_wifi_ap
    \/ connect_wifi_check
    \/ connect_wifi_connect
    \/ connect_wifi_loop
    \/ connect_wifi_wait
    \/ connect_wifi_final

(***************************************************************************)
(* temperature_2_unit(), line 188-195, in hundredths of a degree           *)
(***************************************************************************)
\* variant of line 193 with the factor upside down
ToUnit_swapped(fahrenheit, celsius) ==
    IF fahrenheit THEN (celsius * 5) \div 9 + 3200 ELSE celsius

ToUnit(fahrenheit, celsius) ==
    IF fahrenheit THEN (celsius * 9) \div 5 + 3200 ELSE celsius

temperature_2_unit(celsius) == ToUnit(FAHRENHEIT, celsius)

(***************************************************************************)
(* get_weather_data(), line 140-182                                        *)
(***************************************************************************)
\* line 157: the answer is accepted
\* variant of line 157 that still accepts status 400
StatusOk_inclusive(status_code) == status_code <= 400

StatusOk(status_code) == status_code < 400

\* line 148-154: urequests.get() answers or fails in the transport
get_weather_data_get ==
    /\ pc = "gw_get"
    /\ \/ /\ response' \in {<<r>> : r \in Responses}
          /\ Log("fetch")
          /\ pc' = "gw_status"
          /\ UNCHANGED <<exc, failed>>
       \/ /\ Raise("fetch", "OSError")
          /\ trace' = trace \o <<"fetch", "fetch_raise">>
          /\ UNCHANGED response
    /\ UNCHANGED <<ledv, wifiv, ow_data, sensev, mqttv, sleep_ms, connh,
                   dbgh, last_exit, env>>
    /\ UNCHANGED conv

\* variant of line 157-162 that reports the failed request and carries on
\* with the sensors instead of raising to run()
get_weather_data_status_swallow ==
    /\ pc = "gw_status"
    /\ IF StatusOk(response[1].status)
       THEN /\ pc' = "gw_json"
            /\ UNCHANGED <<exc, failed, trace>>
       ELSE /\ exc' = "Webhook OpenWeather URL failed"
            /\ failed' = "fetch"
            /\ pc' = "gs_scan1"
            /\ Log("fetch_raise")
    /\ UNCHANGED <<ledv, wifiv, fetchv, sensev, mqttv, sleep_ms, connh, dbgh,
                   last_exit, env>>
    /\ UNCHANGED conv

\* line 157-162
get_weather_data_status ==
    /\ pc = "gw_status"
    /\ IF StatusOk(response[1].status)
       THEN /\ pc' = "gw_json"
            /\ UNCHANGED <<exc, failed, trace>>
       ELSE /\ Raise("fetch", "Webhook OpenWeather URL failed")
            /\ Log("fetch_raise")
    /\ UNCHANGED <<ledv, wifiv, fetchv, sensev, mqttv, sleep_ms, connh, dbgh,
                   last_exit, env>>
    /\ UNCHANGED conv

\* line 165-170: response.json(), then the first debug_on()
get_weather_data_json ==
    /\ pc = "gw_json"
    /\ IF response[1].json
       THEN /\ Log("parse")
            /\ SampleDebug(1)
            /\ pc' = "gw_extract"
            /\ UNCHANGED <<exc, failed>>
       ELSE /\ Raise("fetch", "ValueError")
            /\ trace' = trace \o <<"parse", "fetch_raise">>
            /\ UNCHANGED dbgh
    /\ UNCHANGED <<ledv, wifiv, fetchv, sensev, mqttv, sleep_ms, connh,
                   last_exit, env>>
    /\ UNCHANGED conv

\* line 173-182: a missing key raises KeyError, nothing is defaulted
get_weather_data_extract ==
    /\ pc = "gw_extract"
    /\ IF MainKeys \subseteq response[1].keys
       THEN /\ ow_data' =
                 <<[ow_temp |-> temperature_2_unit(response[1].temp - 27315),
                    ow_hum |-> response[1].humidity,
                    ow_pres |-> response[1].pressure]>>
            /\ response' = <<>>
            /\ SampleDebug(1)
            /\ Log("fetch_ok")
            /\ pc' = "gs_scan1"
            /\ UNCHANGED <<exc, failed>>
       ELSE /\ Raise("fetch", "KeyError")
            /\ Log("fetch_raise")
            /\ UNCHANGED <<response, ow_data, dbgh>>
    /\ UNCHANGED <<ledv, wifiv, sensev, mqttv, sleep_ms, connh, last_exit,
                   env>>
    /\ UNCHANGED conv

get_weather_data ==
    \/ get_weather_data_get
    \/ get_weather_data_status
    \/ get_weather_data_json
    \/ get_weather_data_extract

(***************************************************************************)
(* get_sensor_readings(), line 202-275                                     *)
(***************************************************************************)
\* i2c.scan(): the addresses that answer this scan
Scans == {<<s>> : s \in SUBSET Addrs}

\* line 206-217: first scan, its result is dropped
get_sensor_readings_wake ==
    /\ pc = "gs_scan1"
    /\ scan1' \in Scans
    /\ scan' = scan1'
    /\ Log("sense")
    /\ pc' = "gs_am_scan"
    /\ UNCHANGED <<ledv, wifiv, fetchv, raw, sensor_data, mqttv, exc,
                   sleep_ms, failed, connh, dbgh, last_exit, env>>
    /\ UNCHANGED conv

\* variant that trusts the first scan
AM2320Probe_first(first, second) == first

\* the result of the scan that decides whether the AM2320 is there
AM2320Probe(first, second) == second

\* line 218-219
get_sensor_readings_am_scan ==
    /\ pc = "gs_am_scan"
    /\ scan' \in Scans
    /\ IF AM2320_ADDR \notin AM2320Probe(scan1, scan')[1]
       THEN /\ Raise("sense", "Cannot find AM2320 sensor")
            /\ trace' = trace \o <<"probe_92", "sense_raise">>
       ELSE /\ pc' = "gs_am_read"
            /\ Log("probe_92")
            /\ UNCHANGED <<exc, failed>>
    /\ UNCHANGED <<ledv, wifiv, fetchv, scan1, raw, sensor_data, mqttv,
                   sleep_ms, connh, dbgh, last_exit, env>>
    /\ UNCHANGED conv

\* line 222-228: measure() fails with OSError when the sensor does not answer
get_sensor_readings_am_read ==
    /\ pc = "gs_am_read"
    /\ \/ /\ \E t \in AmTemps, h \in AmHums :
                raw' = [raw EXCEPT !.am_temp = temperature_2_unit(t),
                                   !.am_hum = h]
          /\ SampleDebug(1)
          /\ Log("read_92")
          /\ pc' = "gs_bmp_scan"
          /\ UNCHANGED <<exc, failed>>
       \/ /\ Raise("sense", "OSError")
          /\ trace' = trace \o <<"read_92", "sense_raise">>
          /\ UNCHANGED <<raw, dbgh>>
    /\ UNCHANGED <<ledv, wifiv, fetchv, scan1, scan, sensor_data, mqttv,
                   sleep_ms, connh, last_exit, env>>
    /\ UNCHANGED conv

\* variant of line 236-237 that leaves a missing BMP180 out and goes on with
\* the next sensor
get_sensor_readings_bmp_scan_skip ==
    /\ pc = "gs_bmp_scan"
    /\ scan' \in Scans
    /\ pc' = IF BMP180_ADDR \notin scan'[1] THEN "gs_bh_scan" ELSE "gs_bmp_read"
    /\ Log("probe_119")
    /\ UNCHANGED <<ledv, wifiv, fetchv, scan1, raw, sensor_data, mqttv, exc,
                   failed, sleep_ms, connh, dbgh, last_exit, env>>
    /\ UNCHANGED conv

\* line 233-237
get_sensor_readings_bmp_scan ==
    /\ pc = "gs_bmp_scan"
    /\ scan' \in Scans
    /\ IF BMP180_ADDR \notin scan'[1]
       THEN /\ Raise("sense", "Cannot find BMP180 sensor")
            /\ trace' = trace \o <<"probe_119", "sense_raise">>
       ELSE /\ pc' = "gs_bmp_read"
            /\ Log("probe_119")
            /\ UNCHANGED <<exc, failed>>
    /\ UNCHANGED <<ledv, wifiv, fetchv, scan1, raw, sensor_data, mqttv,
                   sleep_ms, connh, dbgh, last_exit, env>>
    /\ UNCHANGED conv

\* line 240-245
get_sensor_readings_bmp_read ==
    /\ pc = "gs_bmp_read"
    /\ \/ /\ \E t \in BmpTemps, p \in BmpPress, a \in BmpAlts :
                raw' = [raw EXCEPT !.bmp_temp = temperature_2_unit(t),
                                   !.bmp_pres = p \div 100,
                                   !.bmp_alt = a]
          /\ SampleDebug(1)
          /\ Log("read_119")
          /\ pc' = "gs_bh_scan"
          /\ UNCHANGED <<exc, failed>>
       \/ /\ Raise("sense", "OSError")
          /\ trace' = trace \o <<"read_119", "sense_raise">>
          /\ UNCHANGED <<raw, dbgh>>
    /\ UNCHANGED <<ledv, wifiv, fetchv, scan1, scan, sensor_data, mqttv,
                   sleep_ms, connh, last_exit, env>>
    /\ UNCHANGED conv

\* line 250-254
get_sensor_readings_bh_scan ==
    /\ pc = "gs_bh_scan"
    /\ scan' \in Scans
    /\ IF BH1750_ADDR \notin scan'[1]
       THEN /\ Raise("sense", "Cannot find BH1750 sensor")
            /\ trace' = trace \o <<"probe_35", "sense_raise">>
       ELSE /\ pc' = "gs_bh_read"
            /\ Log("probe_35")
            /\ UNCHANGED <<exc, failed>>
    /\ UNCHANGED <<ledv, wifiv, fetchv, scan1, raw, sensor_data, mqttv,
                   sleep_ms, connh, dbgh, last_exit, env>>
    /\ UNCHANGED conv

\* line 257-260
get_sensor_readings_bh_read ==
    /\ pc = "gs_bh_read"
    /\ \/ /\ \E l \in BhLums : raw' = [raw EXCEPT !.bh_lum = l]
          /\ SampleDebug(1)
          /\ Log("read_35")
          /\ pc' = "gs_bat"
          /\ UNCHANGED <<exc, failed>>
       \/ /\ Raise("sense", "OSError")
          /\ trace' = trace \o <<"read_35", "sense_raise">>
          /\ UNCHANGED <<raw, dbgh>>
    /\ UNCHANGED <<ledv, wifiv, fetchv, scan1, scan, sensor_data, mqttv,
                   sleep_ms, connh, last_exit, env>>
    /\ UNCHANGED conv

\* line 270: 3.3 * 1.27 * (adc / 2**16) Volt, in millivolts
BatVolt(adc) == (4191 * adc) \div 65536

\* line 265-275
get_sensor_readings_bat ==
    /\ pc = "gs_bat"
    /\ \E a \in AdcVals :
          sensor_data' =
              <<[am2320_temp |-> raw.am_temp, am2320_hum |-> raw.am_hum,
                 bmp180_temp |-> raw.bmp_temp, bmp180_pres |-> raw.bmp_pres,
                 bmp180_alt |-> raw.bmp_alt, bh1750_lum |-> raw.bh_lum,
                 bat_volt |-> BatVolt(a)]>>
    /\ scan1' = <<>> /\ scan' = <<>> /\ raw' = NoRaw
    /\ SampleDebug(1)
    /\ trace' = trace \o <<"read_bat", "sense_ok">>
    /\ pc' = "lr_payload"
    /\ UNCHANGED <<ledv, wifiv, fetchv, mqttv, exc, sleep_ms, failed, connh,
                   last_exit, env>>
    /\ UNCHANGED conv

get_sensor_readings ==
    \/ get_sensor_readings_wake
    \/ get_sensor_readings_am_scan
    \/ get_sensor_readings_am_read
    \/ get_sensor_readings_bmp_scan
    \/ get_sensor_readings_bmp_read
    \/ get_sensor_readings_bh_scan
    \/ get_sensor_readings_bh_read
    \/ get_sensor_readings_bat

(***************************************************************************)
(* show_error(), line 50-61: for i in range(3): LED on, LED off            *)
(***************************************************************************)
Flashes == 3

\* line 58-59
show_error_on ==
    /\ pc = "se_on"
    /\ led' = LED_ON
    /\ Log("led_on")
    /\ pc' = "se_off"
    /\ UNCHANGED <<ret, i, wifiv, fetchv, sensev, mqttv, exc, sleep_ms,
                   failed, connh, dbgh, last_exit, env>>
    /\ UNCHANGED conv

\* variant of line 57 with one round more
show_error_off_extra ==
    /\ pc = "se_off"
    /\ led' = LED_OFF
    /\ Log("led_off")
    /\ i' = i + 1
    /\ IF i + 1 <= Flashes
       THEN pc' = "se_on" /\ ret' = ret
       ELSE pc' = ret /\ ret' = "none"
    /\ UNCHANGED <<wifiv, fetchv, sensev, mqttv, exc, sleep_ms, failed,
                   connh, dbgh, last_exit, env>>
    /\ UNCHANGED conv

\* line 60-61, and the return to the caller after the last round
show_error_off ==
    /\ pc = "se_off"
    /\ led' = LED_OFF
    /\ Log("led_off")
    /\ i' = i + 1
    /\ IF i + 1 < Flashes
       THEN pc' = "se_on" /\ ret' = ret
       ELSE pc' = ret /\ ret' = "none"
    /\ UNCHANGED <<wifiv, fetchv, sensev, mqttv, exc, sleep_ms, failed,
                   connh, dbgh, last_exit, env>>
    /\ UNCHANGED conv

show_error ==
    \/ show_error_on
    \/ show_error_off

(***************************************************************************)
(* log_readings(), line 282-324                                            *)
(***************************************************************************)
\* variant of line 303 with = in place of +=: the forecasts line is lost
Payload_overwritten(ow, sd, sig) ==
    << [measurement |-> "actuals",
        tags |-> <<<<"source", STATION_ID>>,
                   <<"location", OPENWEATHERMAP_CITY>>>>,
        fields |-> <<<<"ac_temp", sd.am2320_temp>>,
                     <<"ac_hum", sd.am2320_hum>>,
                     <<"ac_pres", sd.bmp180_pres>>,
                     <<"ac_lum", sd.bh1750_lum>>,
                     <<"ac_batv", sd.bat_volt>>,
                     <<"ac_rssi", sig>>>>,
        end |-> " \r\n"] >>

\* line 302-303: the two lines of the payload, each with its measurement,
\* tags, fields in order and the line end
Payload(ow, sd, sig) ==
    << [measurement |-> "forecasts",
        tags |-> <<<<"source", "OpenWeatherMap">>,
                   <<"location", OPENWEATHERMAP_CITY>>>>,
        fields |-> <<<<"ow_temp", ow.ow_temp>>, <<"ow_hum", ow.ow_hum>>,
                     <<"ow_pres", ow.ow_pres>>>>,
        end |-> " \r\n"],
       [measurement |-> "actuals",
        tags |-> <<<<"source", STATION_ID>>,
                   <<"location", OPENWEATHERMAP_CITY>>>>,
        fields |-> <<<<"ac_temp", sd.am2320_temp>>,
                     <<"ac_hum", sd.am2320_hum>>,
                     <<"ac_pres", sd.bmp180_pres>>,
                     <<"ac_lum", sd.bh1750_lum>>,
                     <<"ac_batv", sd.bat_volt>>,
                     <<"ac_rssi", sig>>>>,
        end |-> " \r\n"] >>

\* line 286-303
log_readings_payload ==
    /\ pc = "lr_payload"
    /\ payload' = Payload(ow_data[1], sensor_data[1], wifi_rssi[1])
    /\ Log("publish")
    /\ pc' = "lr_connect"
    /\ UNCHANGED <<ledv, wifiv, fetchv, sensev, sock, delivered, exc,
                   sleep_ms, failed, connh, dbgh, last_exit, env>>
    /\ UNCHANGED conv

\* line 307-310: a new client, client.connect()
log_readings_connect ==
    /\ pc = "lr_connect"
    /\ \/ /\ sock' = "open"
          /\ Log("mqtt_connect")
          /\ pc' = "lr_publish"
          /\ UNCHANGED <<exc, failed>>
       \/ /\ RaiseInTry("OSError")
          /\ Log("mqtt_connect_raise")
          /\ UNCHANGED sock
    /\ UNCHANGED <<ledv, wifiv, fetchv, sensev, payload, delivered, sleep_ms,
                   connh, dbgh, last_exit, env>>
    /\ UNCHANGED conv

\* line 313: client.publish(config.MQTT_TOPIC, payload)
log_readings_publish ==
    /\ pc = "lr_publish"
    /\ \/ /\ delivered' =
                 Append(delivered, [topic |-> MQTT_TOPIC, msg |-> payload])
          /\ Log("mqtt_publish")
          /\ pc' = "lr_disconnect"
          /\ UNCHANGED <<exc, failed>>
       \/ /\ RaiseInTry("OSError")
          /\ Log("mqtt_publish_raise")
          /\ UNCHANGED delivered
    /\ UNCHANGED <<ledv, wifiv, fetchv, sensev, payload, sock, sleep_ms,
                   connh, dbgh, last_exit, env>>
    /\ UNCHANGED conv

\* variant of line 316-320 with the handler run on every outcome (finally)
log_readings_disconnect_finally ==
    /\ pc = "lr_disconnect"
    /\ \/ /\ sock' = "closed"
          /\ Log("mqtt_disconnect")
          /\ pc' = "lr_except"
          /\ UNCHANGED <<exc, failed>>
       \/ /\ RaiseInTry("OSError")
          /\ Log("mqtt_disconnect_raise")
          /\ UNCHANGED sock
    /\ UNCHANGED <<ledv, wifiv, fetchv, sensev, payload, delivered, sleep_ms,
                   connh, dbgh, last_exit, env>>
    /\ UNCHANGED conv

\* line 316: client.disconnect()
log_readings_disconnect ==
    /\ pc = "lr_disconnect"
    /\ \/ /\ sock' = "closed"
          /\ Log("mqtt_disconnect")
          /\ pc' = "lr_debug"
          /\ UNCHANGED <<exc, failed>>
       \/ /\ RaiseInTry("OSError")
          /\ Log("mqtt_disconnect_raise")
          /\ UNCHANGED sock
    /\ UNCHANGED <<ledv, wifiv, fetchv, sensev, payload, delivered, sleep_ms,
                   connh, dbgh, last_exit, env>>
    /\ UNCHANGED conv

\* line 318-320: the handler of log_readings calls show_error()
log_readings_except ==
    /\ pc = "lr_except"
    /\ Log("publish_caught")
    /\ i' = 0
    /\ ret' = "lr_debug"
    /\ pc' = "se_on"
    /\ UNCHANGED <<led, wifiv, fetchv, sensev, mqttv, exc, sleep_ms, failed,
                   connh, dbgh, last_exit, env>>
    /\ UNCHANGED conv

\* line 323-324, and the return to run()
log_readings_debug ==
    /\ pc = "lr_debug"
    /\ SampleDebug(1)
    /\ Log("publish_ret")
    /\ pc' = "run_power"
    /\ UNCHANGED <<ledv, wifiv, fetchv, sensev, mqttv, exc, sleep_ms, failed,
                   connh, last_exit, env>>
    /\ UNCHANGED conv

log_readings ==
    \/ log_readings_payload
    \/ log_readings_connect
    \/ log_readings_publish
    \/ log_readings_disconnect
    \/ log_readings_except
    \/ log_readings_debug

(***************************************************************************)
(* run(), line 363-372: the handler and the power decision                 *)
(***************************************************************************)
\* line 363-365
run_except ==
    /\ pc = "run_except"
    /\ Log("failed")
    /\ i' = 0
    /\ ret' = "run_pause"
    /\ pc' = "se_on"
    /\ UNCHANGED <<led, wifiv, fetchv, sensev, mqttv, exc, sleep_ms, failed,
                   connh, dbgh, last_exit, env>>
    /\ UNCHANGED conv

\* line 367: utime.sleep(5)
run_pause ==
    /\ pc = "run_pause"
    /\ Log("pause")
    /\ pc' = "run_reset"
    /\ UNCHANGED <<ledv, wifiv, fetchv, sensev, mqttv, exc, sleep_ms, failed,
                   connh, dbgh, last_exit, env>>
    /\ UNCHANGED conv

\* variant of line 368 in which reset() returns and run() goes on to line 371
run_reset_returns ==
    /\ pc = "run_reset"
    /\ Log("reset")
    /\ pc' = "run_power"
    /\ last_exit' = "reset"
    /\ led' = LED_OFF
    /\ sta_active' = FALSE
    /\ ap_active' \in BOOLEAN
    /\ link' = FALSE
    /\ UNCHANGED <<ret, i, tries, wifi_rssi, fetchv, sensev, mqttv, exc,
                   sleep_ms, failed, connh, dbgh, pin, rssi>>
    /\ UNCHANGED conv

\* line 368: reset() restarts the board, it does not return
run_reset ==
    /\ pc = "run_reset"
    /\ Log("reset")
    /\ pc' = "idle"
    /\ last_exit' = "reset"
    /\ led' = LED_OFF
    /\ sta_active' = FALSE
    /\ ap_active' \in BOOLEAN
    /\ link' = FALSE
    /\ UNCHANGED <<ret, i, tries, wifi_rssi, fetchv, sensev, mqttv, exc,
                   sleep_ms, failed, connh, dbgh, pin, rssi>>
    /\ UNCHANGED conv

\* variant of line 371 that decides by the levels sampled earlier in the cycle
GoToSleep_cached == 0 \notin debug_seen

\* line 371: if not debug_on()
GoToSleep == ~debug_on

run_power ==
    /\ pc = "run_power"
    /\ SampleDebug(1)
    /\ IF GoToSleep
       THEN pc' = "ds_print" /\ Log("power_sleep")
       ELSE pc' = "active" /\ Log("power_stay")
    /\ UNCHANGED <<ledv, wifiv, fetchv, sensev, mqttv, exc, sleep_ms, failed,
                   connh, last_exit, env>>
    /\ UNCHANGED conv

(***************************************************************************)
(* deepsleep_till_next_cycle(), line 331-339                               *)
(***************************************************************************)
\* line 335-336
deepsleep_print ==
    /\ pc = "ds_print"
    /\ pc' = "ds_sleep"
    /\ UNCHANGED <<ledv, wifiv, fetchv, sensev, mqttv, exc, sleep_ms, hist,
                   env>>
    /\ UNCHANGED conv

\* variant of line 339 that passes the seconds as they are
SleepTime_seconds == INTERVAL

\* line 339: the argument of deepsleep(), in milliseconds
SleepTime == INTERVAL * 1000

deepsleep ==
    /\ pc = "ds_sleep"
    /\ sleep_ms' = SleepTime
    /\ Log("deepsleep")
    /\ pc' = "sleeping"
    /\ link' = FALSE
    /\ UNCHANGED <<ledv, wifiv, fetchv, sensev, mqttv, exc, failed, connh,
                   dbgh, last_exit, pin, rssi>>
    /\ UNCHANGED conv

deepsleep_till_next_cycle ==
    \/ deepsleep_print
    \/ deepsleep

\* the timer of deepsleep() expires: the board restarts
wake ==
    /\ pc = "sleeping"
    /\ pc' = "idle"
    /\ last_exit' = "wake"
    /\ led' = LED_OFF
    /\ sta_active' = FALSE
    /\ ap_active' \in BOOLEAN
    /\ UNCHANGED <<ret, i, tries, wifi_rssi, fetchv, sensev, mqttv, exc,
                   sleep_ms, trace, failed, connh, dbgh, env>>
    /\ UNCHANGED conv

(***************************************************************************)
(* The program and its environment                                         *)
(***************************************************************************)
Program ==
    \/ run_start
    \/ connect_wifi
    \/ get_weather_data
    \/ get_sensor_readings
    \/ log_readings
    \/ show_error
    \/ run_except
    \/ run_pause
    \/ run_reset
    \/ run_power
    \/ deepsleep_till_next_cycle
    \/ wake

Next ==
    \/ Program
    \/ PinChange
    \/ LinkChange

Spec == Init /\ [][Next]_vars

\* The interpreter always executes the next statement, and the reset and
\* the deepsleep timer always restart the board.
FairSpec == Spec /\ WF_vars(Program)

(***************************************************************************)
(* temperature_2_unit() on its own: one call for every argument and either *)
(* unit preference, the board idle all the while.                          *)
(***************************************************************************)
\* arguments: every half degree from -MaxHalfDegrees/2 to MaxHalfDegrees/2
MaxHalfDegrees == 200
ConvInputs == {h * 50 : h \in -MaxHalfDegrees..MaxHalfDegrees}

ConvInit ==
    /\ pc = "idle"
    /\ Cleared
    /\ led = LED_OFF
    /\ sta_active = FALSE
    /\ ap_active = FALSE
    /\ pin = 1
    /\ link = FALSE
    /\ rssi = -70
    /\ last_exit = "boot"
    /\ conv_f \in BOOLEAN
    /\ conv_in \in ConvInputs
    /\ conv_out = <<>>

\* line 188-195 with config.FAHRENHEIT = conv_f
Convert ==
    /\ conv_out = <<>>
    /\ conv_out' = <<ToUnit(conv_f, conv_in)>>
    /\ UNCHANGED <<prog, hist, env, conv_f, conv_in>>

ConvNext == Convert

ConvSpec == ConvInit /\ [][ConvNext]_vars

(***************************************************************************)
(* Vocabulary of the properties                                            *)
(***************************************************************************)
\* the cycle is past the four stages: power decision, deepsleep, or active
DonePcs == {"run_power", "ds_print", "ds_sleep", "sleeping", "active"}
\* the cycle ended in reset() and the board is about to run again
Restarted == pc = "idle" /\ last_exit = "reset"
\* a occurs in s, before the first b
Before(a, b, s) == In(a, s) /\ Index(a, s) < Index(b, s)
IsPrefix(s, t) == Len(s) <= Len(t) /\ SubSeq(t, 1, Len(s)) = s
IsLed(e) == e \in {"led_on", "led_off"}
ThreePulses == <<"led_on", "led_off", "led_on", "led_off", "led_on", "led_off">>
\* what run()'s handler does, in order
FailedSeq == <<"failed">> \o ThreePulses \o <<"pause", "reset">>
NeverConnected == [entry |-> "down", loop |-> "down", final |-> "down"]

(***************************************************************************)
(* C1: a failure of the broker connect, send or disconnect in the publish  *)
(* stage reaches run()'s handler: the cycle ends in reset and never gets   *)
(* to the power decision.                                                  *)
(***************************************************************************)
C1_PublishFailurePropagates ==
    failed = "publish" =>
        /\ pc \notin DonePcs
        /\ pc = "idle" => last_exit = "reset"

(***************************************************************************)
(* C2: in one cycle the stages are called in the order connect, fetch,     *)
(* sense, publish, each at most once and each only after the one before    *)
(* returned normally; after a failed fetch neither the sensor collection   *)
(* nor the publish is called.                                              *)
(***************************************************************************)
C2_StageOrder ==
    /\ \A e \in {"connect", "fetch", "sense", "publish"} : Count(e, trace) <= 1
    /\ trace # <<>> => trace[1] = "connect"
    /\ In("connect_ok", trace) => Before("connect", "connect_ok", trace)
    /\ In("fetch", trace) => Before("connect_ok", "fetch", trace)
    /\ In("fetch_ok", trace) => Before("fetch", "fetch_ok", trace)
    /\ In("sense", trace) => Before("fetch_ok", "sense", trace)
    /\ In("sense_ok", trace) => Before("sense", "sense_ok", trace)
    /\ In("publish", trace) => Before("sense_ok", "publish", trace)
    /\ failed = "connect" => ~In("fetch", trace)
    /\ failed \in {"connect", "fetch"} =>
           ~In("sense", trace) /\ ~In("publish", trace)
    /\ failed = "sense" => ~In("publish", trace)

C2_FetchFailedCycle ==
    /\ Restarted
    /\ failed = "fetch"
    /\ In("fetch_raise", trace)

(***************************************************************************)
(* C3: after a failure in any of the four stages, with the debug pin low   *)
(* or high, the board eventually is back at the start and runs a new       *)
(* cycle.                                                                  *)
(***************************************************************************)
C3_FailureLeadsToNewCycle == (failed # "none") ~> (pc = "cw_ap")

(***************************************************************************)
(* C4: when no isconnected() call of connect_wifi answers connected, the   *)
(* call issues one connect request, waits exactly MAX_TRIES times one      *)
(* second, and raises.                                                     *)
(***************************************************************************)
C4_ExactlyMaxTries ==
    checks = NeverConnected =>
        /\ failed = "connect"
        /\ exc = "WiFi connection failed"
        /\ requests = 1
        /\ waits = MAX_TRIES
        /\ Count("request", trace) = 1

C4_GaveUp ==
    /\ pc = "run_except"
    /\ checks = NeverConnected
    /\ waits = MAX_TRIES

(***************************************************************************)
(* C5: once log_readings has ended, normally or after a failed send, the   *)
(* broker connection it opened is not open any more.                       *)
(***************************************************************************)
C5_ConnectionScopedToCall ==
    In("publish_ret", trace) => sock # "open"

(***************************************************************************)
(* C6: after the four stages the power decision follows the debug pin      *)
(* alone: pin low, run() ends with the board active, without deepsleep and *)
(* without reset; pin high, deepsleep(INTERVAL * 1000) is called, and the  *)
(* only step out of the sleep is the restart of the board.                 *)
(***************************************************************************)
C6_PowerState ==
    /\ pc = "active" =>
           /\ In("power_stay", trace)
           /\ sleep_ms = 0
           /\ ~In("deepsleep", trace)
           /\ ~In("reset", trace)
    /\ pc = "sleeping" =>
           /\ In("power_sleep", trace)
           /\ sleep_ms = INTERVAL * 1000
           /\ Count("deepsleep", trace) = 1
    /\ In("deepsleep", trace) => Before("power_sleep", "deepsleep", trace)

C6_PowerStep ==
    /\ (pc = "run_power" /\ pc' # pc) =>
           pc' = IF pin = 0 THEN "active" ELSE "ds_print"
    /\ pc = "ds_print" => pc' \in {"ds_print", "ds_sleep"}
    /\ pc = "ds_sleep" => pc' \in {"ds_sleep", "sleeping"}
    /\ pc = "sleeping" => pc' \in {"sleeping", "idle"}
    /\ (pc = "sleeping" /\ pc' = "idle") => last_exit' = "wake"
    /\ pc = "active" => pc' = "active"

\* C6: the power decision follows the debug pin alone, in every state and
\* in every step
C6_PowerDecision == [](C6_PowerState) /\ [][C6_PowerStep]_vars

C6_Asleep ==
    /\ pc = "sleeping"
    /\ sleep_ms = INTERVAL * 1000
    /\ 0 \in debug_seen

(***************************************************************************)
(* C7: in a cycle without any failure that ends in deepsleep, the broker   *)
(* got exactly one message, deepsleep was called once, with the interval,  *)
(* after the publish, the LED never flashed and reset() was not called.    *)
(***************************************************************************)
C7_HappyCycle ==
    /\ (failed = "none" /\ pc \in DonePcs) =>
           /\ Len(delivered) = 1
           /\ Count("mqtt_publish", trace) = 1
           /\ sock = "closed"
    /\ failed = "none" =>
           /\ \A k \in 1..Len(trace) : ~IsLed(trace[k])
           /\ led = LED_OFF
           /\ ~In("reset", trace)
           /\ ~In("failed", trace)
    /\ (failed = "none" /\ pc = "sleeping") =>
           /\ Count("deepsleep", trace) = 1
           /\ sleep_ms = INTERVAL * 1000
           /\ Before("mqtt_publish", "deepsleep", trace)
           /\ Before("publish_ret", "power_sleep", trace)

C7_PublishedThenAsleep ==
    /\ pc = "sleeping"
    /\ failed = "none"
    /\ Len(delivered) = 1

(***************************************************************************)
(* C8: when an exception reaches run()'s handler the LED goes on and off   *)
(* exactly three times, then comes the pause, then the reset; when address *)
(* 35 is missing from the scan for the BH1750 the exception names that     *)
(* sensor, log_readings is never called and the cycle ends in reset.       *)
(***************************************************************************)
C8_ThreePulsesThenRestart ==
    /\ pc = "run_except" => ~In("failed", trace) /\ failed # "none"
    /\ In("failed", trace) =>
           /\ IsPrefix(SubSeq(trace, Index("failed", trace), Len(trace)),
                       FailedSeq)
           /\ SelectSeq(SubSeq(trace, 1, Index("failed", trace)), IsLed) = <<>>
    /\ pc \in {"run_pause", "run_reset"} \/ Restarted =>
           SelectSeq(trace, IsLed) = ThreePulses
    /\ pc = "run_reset" => In("pause", trace)
    /\ Restarted =>
           SubSeq(trace, Index("failed", trace), Len(trace)) = FailedSeq
    /\ (In("probe_35", trace) /\ scan # <<>> /\ BH1750_ADDR \notin scan[1]) =>
           /\ exc = "Cannot find BH1750 sensor"
           /\ failed = "sense"
           /\ ~In("publish", trace)
           /\ pc \in {"run_except", "se_on", "se_off", "run_pause",
                      "run_reset", "idle"}
           /\ pc = "idle" => last_exit = "reset"

C8_LightSensorMissing ==
    /\ Restarted
    /\ exc = "Cannot find BH1750 sensor"
    /\ BH1750_ADDR \notin scan[1]

(***************************************************************************)
(* C9: whether the AM2320 counts as present is decided by the second scan  *)
(* alone: found there, the collection goes on, also when the first scan    *)
(* missed it; not found there, the collection raises 'Cannot find AM2320   *)
(* sensor', also when the first scan saw it.                               *)
(***************************************************************************)
C9_SecondProbeDecides ==
    (In("probe_92", trace) /\ ~In("probe_119", trace) /\ scan # <<>>) =>
        /\ AM2320_ADDR \in scan[1] =>
               /\ exc # "Cannot find AM2320 sensor"
               /\ In("read_92", trace) \/ pc = "gs_am_read"
        /\ AM2320_ADDR \notin scan[1] =>
               /\ exc = "Cannot find AM2320 sensor"
               /\ failed = "sense"
               /\ ~In("read_92", trace)

C9_ColdProbeMissed ==
    /\ pc = "gs_bmp_scan"
    /\ AM2320_ADDR \notin scan1[1]
    /\ AM2320_ADDR \in scan[1]
    /\ failed = "none"

(***************************************************************************)
(* C10, as claimed: when the station is connected at the first check,      *)
(* connect_wifi issues no connect request, does not wait, and returns the  *)
(* signal strength.                                                        *)
(***************************************************************************)
C10_AlreadyConnectedReturns ==
    (checks.entry = "up" /\ checks.final # "none") =>
        /\ requests = 0
        /\ In("connect_ok", trace)
        /\ failed # "connect"

(***************************************************************************)
(* C10, amended: when the station is connected at the first check,         *)
(* connect_wifi issues no connect request and does not wait; it returns    *)
(* the radio's current signal strength when the station is still connected *)
(* at the check of line 122, and raises when the connection was lost in    *)
(* between.                                                                *)
(***************************************************************************)
C10_NoRequestState ==
    checks.entry = "up" =>
        /\ requests = 0
        /\ ~In("request", trace)
        /\ waits = 0
        /\ checks.loop = "none"

C10_ReturnStep ==
    (pc = "cw_final" /\ pc' # pc /\ checks.entry = "up") =>
        /\ requests' = 0 /\ waits = 0 /\ tries = 0
        /\ link => pc' = "gw_get" /\ wifi_rssi' = <<rssi>> /\ failed' = "none"
        /\ ~link => pc' = "run_except" /\ wifi_rssi' = <<>>

\* C10, amended: no request and no wait when connected at the first check;
\* the result follows the check of line 122
C10_AlreadyConnected == [](C10_NoRequestState) /\ [][C10_ReturnStep]_vars

C10_ReturnedAtOnce ==
    /\ pc = "gw_get"
    /\ checks.entry = "up"
    /\ requests = 0
    /\ wifi_rssi # <<>>

(***************************************************************************)
(* C11: while the debug pin is not held low the board always gets to       *)
(* deepsleep again, also when a stage fails cycle after cycle.             *)
(***************************************************************************)
C11_AlwaysReachesLowPower == []<>(pin = 0 \/ pc = "sleeping")

(***************************************************************************)
(* C12, as claimed: the debug pin is sampled once per cycle, so all the    *)
(* verbose reports and the power decision of a cycle use one level.        *)
(***************************************************************************)
C12_SampledOnce ==
    /\ n_debug <= 1
    /\ Cardinality(debug_seen) <= 1

(***************************************************************************)
(* C12, amended: every debug_on() call samples the pin anew, eight times   *)
(* in a cycle that gets to the power decision; each verbose report and the *)
(* power decision follow the level at their own sample, so they agree only *)
(* while the pin keeps its level.                                          *)
(***************************************************************************)
C12_SampleState ==
    /\ pc \in {"ds_print", "ds_sleep", "sleeping", "active"} => n_debug = 8
    /\ pc = "run_power" => n_debug = 7
    /\ (pc = "gs_scan1" /\ failed = "none") => n_debug = 2
    /\ (pc = "lr_payload" /\ failed = "none") => n_debug = 6
    /\ n_debug = 0 <=> debug_seen = {}
    /\ In("power_stay", trace) => 0 \in debug_seen
    /\ In("power_sleep", trace) => 1 \in debug_seen

C12_SampleStep ==
    /\ n_debug' > n_debug =>
           /\ n_debug' = n_debug + 1
           /\ debug_seen' = debug_seen \cup {pin}
    /\ n_debug' < n_debug => pc = "idle" /\ n_debug' = 0
    /\ n_debug' = n_debug => debug_seen' = debug_seen
    /\ (pc = "run_power" /\ pc' # pc) =>
           /\ n_debug' = n_debug + 1
           /\ pc' = "active" <=> pin = 0

\* C12, amended: one fresh sample per debug_on() call, in every state and step
C12_SampledPerCall == [](C12_SampleState) /\ [][C12_SampleStep]_vars

C12_VerboseThenAsleep ==
    /\ pc = "sleeping"
    /\ debug_seen = {0, 1}
    /\ n_debug = 8

(***************************************************************************)
(* C13: temperature_2_unit gives a result for every argument, fixed by the *)
(* argument and the unit preference alone: with Fahrenheit c * 9/5 + 32    *)
(* (0 gives 32, 100 gives 212), with Celsius the argument itself.          *)
(***************************************************************************)
C13_Conversion ==
    conv_out # <<>> =>
        /\ Len(conv_out) = 1
        /\ conv_f => 5 * (conv_out[1] - 3200) = 9 * conv_in
        /\ (conv_f /\ conv_in = 0) => conv_out[1] = 3200
        /\ (conv_f /\ conv_in = 10000) => conv_out[1] = 21200
        /\ ~conv_f => conv_out[1] = conv_in

C13_BoilingPoint ==
    /\ conv_f
    /\ conv_in = 10000
    /\ conv_out = <<21200>>

(***************************************************************************)
(* C14: the payload is fixed by the forecast, the readings, the signal     *)
(* strength and the configuration: two records, forecasts then actuals,    *)
(* each with its line end, the first with ow_temp, ow_hum, ow_pres, the    *)
(* second with ac_temp, ac_hum, ac_pres, ac_lum, ac_batv, ac_rssi, their   *)
(* values those of the inputs; it goes out as one message to MQTT_TOPIC.   *)
(***************************************************************************)
FieldNames(rec) == [k \in 1..Len(rec.fields) |-> rec.fields[k][1]]
FieldValues(rec) == [k \in 1..Len(rec.fields) |-> rec.fields[k][2]]

C14_PayloadShape ==
    /\ payload # <<>> =>
           /\ Len(payload) = 2
           /\ payload[1].measurement = "forecasts"
           /\ payload[2].measurement = "actuals"
           /\ \A k \in 1..Len(payload) : payload[k].end = " \r\n"
           /\ payload[1].tags = <<<<"source", "OpenWeatherMap">>,
                                  <<"location", OPENWEATHERMAP_CITY>>>>
           /\ payload[2].tags = <<<<"source", STATION_ID>>,
                                  <<"location", OPENWEATHERMAP_CITY>>>>
           /\ FieldNames(payload[1]) = <<"ow_temp", "ow_hum", "ow_pres">>
           /\ FieldNames(payload[2]) =
                  <<"ac_temp", "ac_hum", "ac_pres", "ac_lum", "ac_batv",
                    "ac_rssi">>
           /\ FieldValues(payload[1]) =
                  <<ow_data[1].ow_temp, ow_data[1].ow_hum, ow_data[1].ow_pres>>
           /\ FieldValues(payload[2]) =
                  <<sensor_data[1].am2320_temp, sensor_data[1].am2320_hum,
                    sensor_data[1].bmp180_pres, sensor_data[1].bh1750_lum,
                    sensor_data[1].bat_volt, wifi_rssi[1]>>
    /\ Len(delivered) <= 1
    /\ \A k \in 1..Len(delivered) :
           delivered[k] = [topic |-> MQTT_TOPIC, msg |-> payload]
    /\ In("mqtt_publish", trace) <=> Len(delivered) = 1

C14_MessageSent ==
    /\ Len(delivered) = 1
    /\ delivered[1].topic = "weatherdata"
    /\ Len(delivered[1].msg) = 2
    /\ delivered[1].msg[2].fields[6] = <<"ac_rssi", -40>>

(***************************************************************************)
(* C15: the LED flashes only in run()'s handler, and a cycle in which it   *)
(* flashed ends in pause and reset: it never gets to the power decision.   *)
(***************************************************************************)
C15_IndicatorOnlyWithRestart ==
    In("led_on", trace) =>
        /\ In("failed", trace)
        /\ pc \notin DonePcs
        /\ pc = "idle" => last_exit = "reset"

(***************************************************************************)
(* C16: get_sensor_readings handles the AM2320 (92), the BMP180 (119) and  *)
(* the BH1750 (35) in this order, each probed before it is read; after a   *)
(* failed probe or read no later sensor is probed or read, the battery is  *)
(* not sampled, no readings are returned and nothing is published.         *)
(***************************************************************************)
SenseSeq == <<"sense", "probe_92", "read_92", "probe_119", "read_119",
              "probe_35", "read_35", "read_bat", "sense_ok">>
IsSenseEvent(e) ==
    e = "sense_raise" \/ \E k \in 1..Len(SenseSeq) : SenseSeq[k] = e
SenseEvents == SelectSeq(trace, IsSenseEvent)

C16_SensorOrder ==
    /\ \/ IsPrefix(SenseEvents, SenseSeq)
       \/ /\ Len(SenseEvents) \in 3..8
          /\ SenseEvents[Len(SenseEvents)] = "sense_raise"
          /\ IsPrefix(SubSeq(SenseEvents, 1, Len(SenseEvents) - 1), SenseSeq)
    /\ failed = "sense" <=> In("sense_raise", trace)
    /\ failed = "sense" =>
           /\ sensor_data = <<>>
           /\ ~In("read_bat", trace)
           /\ ~In("sense_ok", trace)
           /\ ~In("publish", trace)
           /\ payload = <<>> /\ delivered = <<>> /\ sock = "none"
           /\ pc \notin DonePcs
    /\ sensor_data # <<>> <=> In("sense_ok", trace)
    /\ exc = "Cannot find AM2320 sensor" =>
           SenseEvents = <<"sense", "probe_92", "sense_raise">>
    /\ exc = "Cannot find BMP180 sensor" =>
           SenseEvents = SubSeq(SenseSeq, 1, 4) \o <<"sense_raise">>
    /\ exc = "Cannot find BH1750 sensor" =>
           SenseEvents = SubSeq(SenseSeq, 1, 6) \o <<"sense_raise">>

C16_SecondSensorReadFailed ==
    /\ Restarted
    /\ failed = "sense"
    /\ exc = "OSError"
    /\ SenseEvents = SubSeq(SenseSeq, 1, 5) \o <<"sense_raise">>

(***************************************************************************)
(* C17: get_weather_data raises exactly when the status code is 400 or     *)
(* more (399 passes, 400 does not) and then never parses the body; with an *)
(* accepted status and a body that lacks temp, humidity or pressure the    *)
(* fetch stage fails, no forecast set is returned and nothing is           *)
(* published.                                                              *)
(***************************************************************************)
C17_FetchState ==
    /\ exc = "Webhook OpenWeather URL failed" =>
           /\ failed = "fetch"
           /\ response # <<>> /\ response[1].status >= 400
           /\ ~In("parse", trace)
    /\ (In("parse", trace) /\ response # <<>>) => response[1].status <= 399
    /\ exc = "KeyError" =>
           /\ failed = "fetch"
           /\ response # <<>> /\ response[1].status <= 399
           /\ ~(MainKeys \subseteq response[1].keys)
    /\ failed = "fetch" =>
           /\ ow_data = <<>>
           /\ ~In("fetch_ok", trace)
           /\ ~In("sense", trace)
           /\ ~In("publish", trace)
           /\ payload = <<>> /\ delivered = <<>>
           /\ pc \notin DonePcs
    /\ ow_data # <<>> <=> In("fetch_ok", trace)

C17_StatusStep ==
    pc = "gw_status" =>
        /\ pc' = "gw_json" <=> response[1].status <= 399
        /\ pc' # "gw_json" =>
               /\ exc' = "Webhook OpenWeather URL failed"
               /\ failed' = "fetch"
               /\ pc' = "run_except"

C17_ExtractStep ==
    pc = "gw_extract" =>
        \/ /\ MainKeys \subseteq response[1].keys
           /\ ow_data' # <<>> /\ pc' = "gs_scan1"
        \/ /\ ~(MainKeys \subseteq response[1].keys)
           /\ ow_data' = <<>> /\ exc' = "KeyError" /\ pc' = "run_except"

C17_FetchFailures ==
    /\ [](C17_FetchState)
    /\ [][Program => (C17_StatusStep /\ C17_ExtractStep)]_vars

C17_AcceptedButIncomplete ==
    /\ Restarted
    /\ exc = "KeyError"
    /\ response # <<>> /\ response[1].status = 399

(***************************************************************************)
(* C18: in every call of connect_wifi the access point is switched off     *)
(* before a connect request is sent, at most one request is sent per call, *)
(* and the polling loop sends none.                                        *)
(***************************************************************************)
C18_RequestState ==
    /\ requests = Count("request", trace)
    /\ requests <= 1
    /\ In("request", trace) => Before("connect", "request", trace)
    /\ pc \in {"cw_check", "cw_connect", "cw_loop", "cw_wait", "cw_final"}
           => ~ap_active

C18_RequestStep ==
    /\ requests' > requests =>
           /\ pc = "cw_connect"
           /\ ~ap_active /\ ~ap_active'
           /\ requests = 0 /\ requests' = 1
    /\ pc \in {"cw_loop", "cw_wait"} =>
           /\ requests' = requests
           /\ sta_active' = sta_active
           /\ Count("request", trace') = Count("request", trace)

C18_AccessPointOffThenOneRequest ==
    /\ [](C18_RequestState)
    /\ [][Program => C18_RequestStep]_vars

C18_PolledAfterOneRequest ==
    /\ pc = "cw_final"
    /\ waits = MAX_TRIES
    /\ requests = 1
    /\ ~ap_active

(***************************************************************************)
(* C19: only the isconnected() test after the polling loop decides what    *)
(* connect_wifi does: it returns the signal strength iff the station is    *)
(* connected at that test.  A link that comes up after the last loop test  *)
(* is a success, a link the loop saw and that is gone at the final test is *)
(* a failure, and the loop stops at the first test that sees the link, so  *)
(* after exactly as many waits as were made before it.                     *)
(***************************************************************************)
C19_OutcomeState ==
    /\ In("connect_ok", trace) <=> checks.final = "up"
    /\ In("connect_raise", trace) <=> checks.final = "down"
    /\ failed = "connect" <=> checks.final = "down"
    /\ wifi_rssi # <<>> <=> checks.final = "up"
    /\ pc \in {"cw_loop", "cw_wait", "cw_final"} => waits = tries
    /\ pc = "cw_final" =>
           /\ checks.loop = "none" => (checks.entry = "up" /\ waits = 0)
           /\ checks.loop = "down" => waits = MAX_TRIES
           /\ waits <= MAX_TRIES

C19_FinalStep ==
    pc = "cw_final" =>
        /\ (pc' = "gw_get" /\ wifi_rssi' = <<rssi>>) <=> link
        /\ (pc' = "run_except" /\ failed' = "connect" /\ wifi_rssi' = <<>>)
               <=> ~link

C19_LoopStep ==
    pc = "cw_loop" =>
        /\ link => pc' = "cw_final"
        /\ pc' = "cw_final" <=> (link \/ tries = MAX_TRIES)
        /\ waits' = waits

C19_FinalCheckDecides ==
    /\ [](C19_OutcomeState)
    /\ [][Program => (C19_FinalStep /\ C19_LoopStep)]_vars

C19_SeenByLoopLostAtFinal ==
    /\ checks = [entry |-> "down", loop |-> "up", final |-> "down"]
    /\ failed = "connect"
    /\ waits \in 1..(MAX_TRIES - 1)
    /\ Restarted

(***************************************************************************)
(* C20: deepsleep is called only in a cycle in which connect_wifi,         *)
(* get_weather_data and get_sensor_readings returned and log_readings was  *)
(* called and returned; a cycle whose exception reaches run()'s handler    *)
(* goes through indicator, pause and reset in this order and never gets to *)
(* the power decision or to deepsleep.                                     *)
(***************************************************************************)
StagesReturned == <<"connect_ok", "fetch_ok", "sense_ok", "publish",
                    "publish_ret">>
IsStageReturn(e) == \E k \in 1..Len(StagesReturned) : StagesReturned[k] = e
IsPower(e) == e \in {"power_sleep", "power_stay", "deepsleep"}
HandlerPcs == {"se_on", "se_off", "run_pause", "run_reset", "idle"}

C20_PowerState ==
    /\ (pc \in DonePcs \/ SelectSeq(trace, IsPower) # <<>>) =>
           /\ SelectSeq(trace, IsStageReturn) = StagesReturned
           /\ failed \notin {"connect", "fetch", "sense"}
           /\ ~In("failed", trace)
    /\ In("deepsleep", trace) =>
           /\ Before("publish_ret", "power_sleep", trace)
           /\ Before("power_sleep", "deepsleep", trace)
           /\ sleep_ms > 0
    /\ failed \in {"connect", "fetch", "sense"} =>
           /\ pc \in HandlerPcs \cup {"run_except"}
           /\ sleep_ms = 0
           /\ SelectSeq(trace, IsPower) = <<>>
    /\ In("failed", trace) =>
           /\ failed \in {"connect", "fetch", "sense"}
           /\ pc \in HandlerPcs
           /\ In("led_on", trace) => Before("failed", "led_on", trace)
           /\ In("pause", trace) =>
                  /\ SelectSeq(trace, IsLed) = ThreePulses
                  /\ Before("failed", "pause", trace)
           /\ In("reset", trace) => Before("pause", "reset", trace)
           /\ pc = "idle" =>
                  /\ last_exit = "reset"
                  /\ trace[Len(trace)] = "reset"

C20_PowerStep ==
    /\ pc' = "run_power" /\ pc # "run_power" =>
           pc = "lr_debug" /\ ~In("failed", trace)
    /\ pc = "run_reset" => pc' = "idle" /\ last_exit' = "reset"

C20_NoSleepAfterFailure ==
    /\ [](C20_PowerState)
    /\ [][Program => C20_PowerStep]_vars

C20_ConnectFailedThenReset ==
    /\ Restarted
    /\ failed = "connect"
    /\ sleep_ms = 0
    /\ SubSeq(trace, Len(trace) - 1, Len(trace)) = <<"pause", "reset">>

====
